---- MODULE Spec2Model ----
(***************************************************************************)
(* Model of the chunking engine of pdf-chuncker                            *)
(* (src/src/lib/chunking-strategies.ts).  A text is a sequence of          *)
(* one-character strings; offsets are 0-based as in the source, sequence   *)
(* positions are 1-based.                                                  *)
(***************************************************************************)
EXTENDS Integers, Sequences, FiniteSets, TLC

VARIABLES
    pc,            \* where the call is: idle, a strategy loop, return, done, error
    text,          \* chunkText's text argument
    config,        \* chunkText's config argument
    chunks,        \* the chunks array of the running strategy
    chunkId,       \* the chunkId counter of the running strategy
    currentIndex,  \* the currentIndex local of the running strategy
    currentChunk,  \* the currentChunk buffer of the running strategy
    sentences,     \* the sentences array (sentence and semantic strategies)
    paragraphs,    \* the paragraphs array (paragraph strategy)
    i,             \* index of the next unit the loop will take (0-based)
    stack,         \* call stack of recursiveChunk, top frame last
    iterations,    \* number of loop iterations performed by fixedSizeChunking
    result,        \* the ChunkingResult returned, or NoResult
    error,         \* the Error thrown, or NoError
    running,       \* the chunkText call the event loop is executing
    calls,         \* the locals of the other calls, suspended at an await
    chunkingConfig,    \* Index: the chunkingConfig state
    pdfData,           \* Index: the pdfData state, NoPdf for null
    chunkingResult,    \* Index: the chunkingResult state, NoResult for null
    isProcessing,      \* Index: the isProcessing state
    isChunking,        \* Index: the isChunking state
    uploadProgress,    \* Index: the uploadProgress state
    progressIntervals, \* number of setInterval timers of handleFileUpload alive
    uploads,           \* the handleFileUpload calls in flight, in the order made
    uploadedFile,      \* PDFUpload: the uploadedFile state, NoFile for null
    uploadError,       \* PDFUpload: the error state, NoMessage for null
    request,           \* performChunking calls made by a handler, not yet entered
    pending,           \* the performChunking runs whose chunkText has not settled
    lastRun,           \* the run performChunking started last, 0 for none
    timers,            \* the runs waiting on a setTimeout, in the order they were set
    yieldedAt          \* the (run, i) pairs at which a run has awaited its setTimeout

\* the locals of the call that is executing
locals == <<pc, text, config, chunks, chunkId, currentIndex, currentChunk,
            sentences, paragraphs, i, stack, iterations, result, error>>

callVars == <<running, calls>>

\* the state of the page (Index.tsx) and of its upload component
pageVars == <<chunkingConfig, pdfData, chunkingResult, isProcessing,
              isChunking, uploadProgress, progressIntervals, uploads,
              uploadedFile, uploadError, request, pending, lastRun, timers,
              yieldedAt>>

vars == <<locals, callVars, pageVars>>

----------------------------------------------------------------------------
(* Bounds of the model *)

MaxLen == 5
MaxChunkSize == 4
MaxOverlap == 2
MaxIter == 8
MaxElapsed == 1

----------------------------------------------------------------------------
(* Characters and strings *)

Min(a, b) == IF a <= b THEN a ELSE b
Max(a, b) == IF a >= b THEN a ELSE b

\* A text is a sequence of UTF-16 code units, as String.prototype.length counts
\* them.  A code unit of ASCII is written as the character itself, any other
\* one as "U+" and its four hexadecimal digits: <<"a", "U+2003", "b">> is a, EM
\* SPACE, b, and <<"U+00E9">> is e with acute.

\* The 25 characters that \s matches and trim() removes: tab, line feed,
\* vertical tab (U+000B), form feed, carriage return, space, no-break space,
\* U+1680, U+2000 to U+200A, the line and paragraph separators, U+202F,
\* U+205F, U+3000 and U+FEFF
WhiteSpace ==
    {"\t", "\n", "", "\f", "\r", " ", "U+00A0", "U+1680",
     "U+2000", "U+2001", "U+2002", "U+2003", "U+2004", "U+2005", "U+2006",
     "U+2007", "U+2008", "U+2009", "U+200A", "U+2028", "U+2029", "U+202F",
     "U+205F", "U+3000", "U+FEFF"}
SentenceEnd == {".", "!", "?"}
Alphabet == {"a", ".", " ", "\n"}

IsBlank(s) == \A k \in 1..Len(s) : s[k] \in WhiteSpace

\* String.prototype.trim
Trim(s) ==
    IF IsBlank(s) THEN <<>>
    ELSE LET lo == CHOOSE k \in 1..Len(s) :
                     /\ s[k] \notin WhiteSpace
                     /\ \A j \in 1..(k - 1) : s[j] \in WhiteSpace
             hi == CHOOSE k \in 1..Len(s) :
                     /\ s[k] \notin WhiteSpace
                     /\ \A j \in (k + 1)..Len(s) : s[j] \in WhiteSpace
         IN SubSeq(s, lo, hi)

\* String.prototype.slice(from, to), 0-based, negative offsets count from the end
Slice(s, from, to) ==
    LET n == Len(s)
        a == IF from < 0 THEN Max(n + from, 0) ELSE Min(from, n)
        b == IF to < 0 THEN Max(n + to, 0) ELSE Min(to, n)
    IN IF a >= b THEN <<>> ELSE SubSeq(s, a + 1, b)

\* offset just past the maximal whitespace run that starts at offset q
RECURSIVE WsRunEnd(_, _)
WsRunEnd(s, q) ==
    IF q < Len(s) /\ s[q + 1] \in WhiteSpace THEN WsRunEnd(s, q + 1) ELSE q

\* End offset of the match of a splitting pattern anchored at offset q, -1 if none.
\*   "word"      /\s+/
\*   "sentence"  /(?<=[.!?])\s+/
\*   "paragraph" /\n\s*\n/
MatchEnd(re, s, q) ==
    LET e == WsRunEnd(s, q) IN
    CASE re = "word" -> IF e > q THEN e ELSE -1
      [] re = "sentence" ->
           IF q >= 1 /\ s[q] \in SentenceEnd /\ e > q THEN e ELSE -1
      [] re = "paragraph" ->
           IF q < Len(s) /\ s[q + 1] = "\n"
           THEN LET r == WsRunEnd(s, q + 1)
                    nl == {j \in (q + 2)..r : s[j] = "\n"}
                IN IF nl = {} THEN -1
                   ELSE CHOOSE j \in nl : \A k \in nl : k <= j
           ELSE -1

\* String.prototype.split(regexp): p is the end of the last match, q the scan
\* offset.  The scan goes to the first offset from q on where the pattern
\* matches and the match does not end at p; the piece before it is cut off and
\* the scan goes on behind the match.
RECURSIVE SplitFrom(_, _, _, _)
SplitFrom(re, s, p, q) ==
    LET hits == {k \in q..(Len(s) - 1) : MatchEnd(re, s, k) \notin {-1, p}}
    IN IF hits = {} THEN <<Slice(s, p, Len(s))>>
       ELSE LET k == CHOOSE h \in hits : \A j \in hits : h <= j
                \* the pieces behind the match, which ends at e
                rest == {SplitFrom(re, s, e, e) : e \in {MatchEnd(re, s, k)}}
            IN <<Slice(s, p, k)>> \o (CHOOSE r \in rest : TRUE)

Split(re, s) == SplitFrom(re, s, 0, 0)

NonBlank(u) == Len(Trim(u)) > 0

\* text.split(/(?<=[.!?])\s+/).filter(s => s.trim().length > 0)
SplitSentences(s) == SelectSeq(Split("sentence", s), NonBlank)

\* SplitParagraphs splitting where the sentences end
SplitParagraphsAtSentences(s) == SelectSeq(Split("sentence", s), NonBlank)

\* text.split(/\n\s*\n/).filter(p => p.trim().length > 0)
SplitParagraphs(s) == SelectSeq(Split("paragraph", s), NonBlank)

\* text.split(/\s+/).filter(w => w.trim().length > 0)
SplitWords(s) == SelectSeq(Split("word", s), NonBlank)

countWords(s) ==
    Len(SelectSeq(Split("word", Trim(s)), LAMBDA w : Len(w) > 0))

----------------------------------------------------------------------------
(* Inputs *)

Strategies == {"fixed", "sentence", "paragraph", "recursive", "semantic"}

AllTexts(n) == UNION {[1..k -> Alphabet] : k \in 0..n}

Texts == AllTexts(MaxLen)

\* config.overlap is read by fixedSizeChunking alone, so it varies for that
\* strategy (and for the unknown one) and is 0 for the others
Configs ==
    [chunkSize : (-1)..MaxChunkSize, overlap : 0..MaxOverlap,
     strategy : {"fixed", "bogus"}]
    \cup [chunkSize : (-1)..MaxChunkSize, overlap : {0},
          strategy : Strategies \ {"fixed"}]

\* Longer texts for the unit-based strategies: two paragraphs whose sentences
\* need the word-level fallback, and irregular separators
\*   "aa a. a\n\na a a"   and   "a.  a a.\n \n\n a. aa"
\* and a word longer than any chunk size before short ones
\*   "aaaaaa a a a"
ScenarioTexts == {
    <<"a", "a", " ", "a", ".", " ", "a", "\n", "\n", "a", " ", "a", " ", "a">>,
    <<"a", ".", " ", " ", "a", " ", "a", ".", "\n", " ", "\n", "\n", " ", "a", ".", " ", "a", "a">>,
    <<"a", "a", "a", "a", "a", "a", " ", "a", " ", "a", " ", "a">>}

ScenarioConfigs ==
    [chunkSize : 1..MaxChunkSize, overlap : {0}, strategy : Strategies \ {"fixed"}]

\* The fixed-size example of the README:
\*   "The quick brown fox jumps over the lazy dog. The dog was sleeping."
\* with chunk size 20 and overlap 5
ReadmeText ==
    <<"T", "h", "e", " ", "q", "u", "i", "c", "k", " ", "b", "r", "o", "w",
      "n", " ", "f", "o", "x", " ", "j", "u", "m", "p", "s", " ", "o", "v",
      "e", "r", " ", "t", "h", "e", " ", "l", "a", "z", "y", " ", "d", "o",
      "g", ".", " ", "T", "h", "e", " ", "d", "o", "g", " ", "w", "a", "s",
      " ", "s", "l", "e", "e", "p", "i", "n", "g", ".">>

ReadmeConfig == [chunkSize |-> 20, overlap |-> 5, strategy |-> "fixed"]

\* the <<text, config>> pairs chunkText is called with
Inputs ==
    (Texts \X Configs) \cup (ScenarioTexts \X ScenarioConfigs)
        \cup {<<ReadmeText, ReadmeConfig>>}

ValidConfig(cfg) ==
    /\ cfg.strategy \in Strategies
    /\ cfg.chunkSize > 0
    /\ 0 <= cfg.overlap
    /\ cfg.overlap < cfg.chunkSize

NoResult == [none |-> TRUE]
NoError == [none |-> TRUE]

----------------------------------------------------------------------------
(* chunkText *)

RECURSIVE SumCharacterCount(_)
SumCharacterCount(cs) ==
    IF cs = <<>> THEN 0
    ELSE Head(cs).characterCount + SumCharacterCount(Tail(cs))

\* Math.round of the non-negative quotient num / den
RoundDiv(num, den) == (2 * num + den) \div (2 * den)

EmptyResult(cfg) ==
    [chunks |-> <<>>, totalChunks |-> 0, averageChunkSize |-> 0,
     processingTime |-> 0, strategy |-> cfg.strategy]

MakeResult(cs, cfg, elapsed) ==
    [chunks |-> cs,
     totalChunks |-> Len(cs),
     averageChunkSize |->
         IF Len(cs) > 0 THEN RoundDiv(SumCharacterCount(cs), Len(cs)) ELSE 0,
     processingTime |-> elapsed,
     strategy |-> cfg.strategy]

UnknownStrategyError(cfg) ==
    [name |-> "Error",
     message |-> <<"Chunking failed: ", "Unknown chunking strategy: ", cfg.strategy>>]

\* EntryFrame dropping the offset argument: every call starts at offset 0
EntryFrameAtZero(t, start) ==
    [text |-> t, startIndex |-> 0, phase |-> "entry", units |-> <<>>,
     idx |-> 0, currentIndex |-> 0, currentChunk |-> <<>>]

\* a call recursiveChunk(t, start) that has not yet run
EntryFrame(t, start) ==
    [text |-> t, startIndex |-> start, phase |-> "entry", units |-> <<>>,
     idx |-> 0, currentIndex |-> start, currentChunk |-> <<>>]

\* pdfData is null until a file has been parsed
NoPdf == [text |-> <<>>, pages |-> 0]

\* uploadedFile is null
NoFile == "null"

\* PDFUpload's error is null
NoMessage == "null"

\* useState<ChunkingConfig>({strategy: 'fixed', chunkSize: 1000, overlap: 100})
InitialConfig == [chunkSize |-> 1000, overlap |-> 100, strategy |-> "fixed"]

\* the page as it is mounted
InitPage ==
    /\ chunkingConfig = InitialConfig
    /\ pdfData = NoPdf
    /\ chunkingResult = NoResult
    /\ isProcessing = FALSE
    /\ isChunking = FALSE
    /\ uploadProgress = 0
    /\ progressIntervals = 0
    /\ uploads = <<>>
    /\ uploadedFile = NoFile
    /\ uploadError = NoMessage
    /\ request = <<>>
    /\ pending = {}
    /\ lastRun = 0
    /\ timers = <<>>
    /\ yieldedAt = {}

Init ==
    /\ pc = "idle"
    /\ text = <<>>
    /\ config = [chunkSize |-> 1, overlap |-> 0, strategy |-> "fixed"]
    /\ chunks = <<>>
    /\ chunkId = 0
    /\ currentIndex = 0
    /\ currentChunk = <<>>
    /\ sentences = <<>>
    /\ paragraphs = <<>>
    /\ i = 0
    /\ stack = <<>>
    /\ iterations = 0
    /\ result = NoResult
    /\ error = NoError
    /\ running = 1
    /\ calls = <<>>
    /\ InitPage

\* IsEmptyText without the trim: only the empty string counts as empty
IsEmptyTextNoTrim(t) == Len(t) = 0

\* !text || text.trim().length === 0
IsEmptyText(t) == Len(t) = 0 \/ Len(Trim(t)) = 0

\* chunkText up to the dispatch: the empty-text return, the strategy's prologue,
\* or the default branch of the switch
ChunkTextOn(inputs) ==
    /\ pc = "idle"
    /\ \E input \in inputs :
       LET t == input[1]
           cfg == input[2]
       IN
        /\ text' = t
        /\ config' = cfg
        /\ IF IsEmptyText(t)
           THEN /\ result' = EmptyResult(cfg)
                /\ pc' = "done"
                /\ UNCHANGED <<sentences, paragraphs, stack, error>>
           ELSE /\ result' = NoResult
                /\ IF cfg.strategy \in Strategies
                   THEN /\ pc' = cfg.strategy
                        /\ error' = NoError
                        /\ sentences' = IF cfg.strategy \in {"sentence", "semantic"}
                                        THEN SplitSentences(t) ELSE <<>>
                        /\ paragraphs' = IF cfg.strategy = "paragraph"
                                         THEN SplitParagraphs(t) ELSE <<>>
                        /\ stack' = IF cfg.strategy = "recursive"
                                    THEN <<EntryFrame(t, 0)>> ELSE <<>>
                   ELSE /\ pc' = "error"
                        /\ error' = UnknownStrategyError(cfg)
                        /\ UNCHANGED <<sentences, paragraphs, stack>>
    /\ chunks' = <<>>
    /\ chunkId' = 0
    /\ currentIndex' = 0
    /\ currentChunk' = <<>>
    /\ i' = 0
    /\ iterations' = 0
    /\ UNCHANGED <<callVars, pageVars>>

\* a call of chunkText with any of the inputs of the model
ChunkText == ChunkTextOn(Inputs)

\* the tail of chunkText after the strategy returned its chunks
ChunkTextReturn ==
    /\ pc = "return"
    /\ \E elapsed \in {0, MaxElapsed} : result' = MakeResult(chunks, config, elapsed)
    /\ pc' = "done"
    /\ UNCHANGED <<text, config, chunks, chunkId, currentIndex, currentChunk,
                   sentences, paragraphs, i, stack, iterations, error>>
    /\ UNCHANGED <<callVars, pageVars>>

----------------------------------------------------------------------------
(* fixedSizeChunking *)

\* WindowEnd taking the end offset as inclusive: one character short
WindowEndShort(ci, cfg, len) == Min(ci + cfg.chunkSize - 1, len)

WindowEnd(ci, cfg, len) == Min(ci + cfg.chunkSize, len)

\* NextWindowStart advancing by the overlap instead of the step
NextWindowStartByOverlap(ci, cfg) == ci + cfg.overlap

\* NextWindowStart advancing by the whole window, overlap ignored
NextWindowStartFullWindow(ci, cfg) == ci + cfg.chunkSize

NextWindowStart(ci, cfg) == ci + cfg.chunkSize - cfg.overlap

\* IsEmptyWindow without the trim: a whitespace-only window is kept
IsEmptyWindowNoTrim(content) == Len(content) = 0

\* content.trim().length === 0
IsEmptyWindow(content) == Len(Trim(content)) = 0

\* FixedChunk taking the end offset from the trimmed content
FixedChunkTrimmedEnd(content, ci, endIndex, id, cfg) ==
    [id |-> <<"fixed", id>>,
     content |-> Trim(content),
     startIndex |-> ci,
     endIndex |-> ci + Len(Trim(content)),
     wordCount |-> countWords(content),
     characterCount |-> Len(content),
     overlap |-> IF id + 1 > 1 THEN Min(cfg.overlap, Len(content)) ELSE 0,
     strategy |-> "fixed"]

\* FixedChunk recording an overlap on the first chunk too
FixedChunkOverlapOnFirst(content, ci, endIndex, id, cfg) ==
    [id |-> <<"fixed", id>>,
     content |-> Trim(content),
     startIndex |-> ci,
     endIndex |-> endIndex,
     wordCount |-> countWords(content),
     characterCount |-> Len(content),
     overlap |-> Min(cfg.overlap, Len(content)),
     strategy |-> "fixed"]

\* FixedChunk numbering from the incremented counter (++chunkId)
FixedChunkPreIncrement(content, ci, endIndex, id, cfg) ==
    [id |-> <<"fixed", id + 1>>,
     content |-> Trim(content),
     startIndex |-> ci,
     endIndex |-> endIndex,
     wordCount |-> countWords(content),
     characterCount |-> Len(content),
     overlap |-> IF id + 1 > 1 THEN Min(cfg.overlap, Len(content)) ELSE 0,
     strategy |-> "fixed"]

FixedChunk(content, ci, endIndex, id, cfg) ==
    [id |-> <<"fixed", id>>,
     content |-> Trim(content),
     startIndex |-> ci,
     endIndex |-> endIndex,
     wordCount |-> countWords(content),
     characterCount |-> Len(content),
     overlap |-> IF id + 1 > 1 THEN Min(cfg.overlap, Len(content)) ELSE 0,
     strategy |-> "fixed"]

\* one iteration of the while loop
FixedSizeStep ==
    /\ pc = "fixed"
    /\ currentIndex < Len(text)
    /\ iterations < MaxIter
    /\ LET endIndex == WindowEnd(currentIndex, config, Len(text))
           content == Slice(text, currentIndex, endIndex)
       IN IF IsEmptyWindow(content)
          THEN /\ currentIndex' = endIndex
               /\ UNCHANGED <<chunks, chunkId>>
          ELSE /\ chunks' = Append(chunks,
                      FixedChunk(content, currentIndex, endIndex, chunkId, config))
               /\ chunkId' = chunkId + 1
               /\ currentIndex' = NextWindowStart(currentIndex, config)
    /\ iterations' = iterations + 1
    /\ UNCHANGED <<pc, text, config, currentChunk, sentences, paragraphs, i,
                   stack, result, error>>
    /\ UNCHANGED <<callVars, pageVars>>

\* the loop ends (its condition fails, or the break is taken) and chunks is returned
FixedSizeReturn ==
    /\ pc = "fixed"
    /\ currentIndex >= Len(text)
    /\ pc' = "return"
    /\ UNCHANGED <<text, config, chunks, chunkId, currentIndex, currentChunk,
                   sentences, paragraphs, i, stack, iterations, result, error>>
    /\ UNCHANGED <<callVars, pageVars>>

----------------------------------------------------------------------------
(* sentenceBasedChunking and paragraphBasedChunking *)

\* Joined without the separator between the buffer and the unit
JoinedNoSeparator(buf, sep, unit) == buf \o unit

\* currentChunk + (currentChunk ? sep : '') + unit
Joined(buf, sep, unit) == buf \o (IF buf # <<>> THEN sep ELSE <<>>) \o unit

\* SavedChunk with the end offset counted from 0 instead of from currentIndex
SavedChunkEndFromOrigin(strategy, buf, ci, id) ==
    [id |-> <<strategy, id>>,
     content |-> Trim(buf),
     startIndex |-> ci,
     endIndex |-> Len(buf),
     wordCount |-> countWords(buf),
     characterCount |-> Len(buf),
     strategy |-> strategy]

\* the chunk object pushed when a buffer is saved
SavedChunk(strategy, buf, ci, id) ==
    [id |-> <<strategy, id>>,
     content |-> Trim(buf),
     startIndex |-> ci,
     endIndex |-> ci + Len(buf),
     wordCount |-> countWords(buf),
     characterCount |-> Len(buf),
     strategy |-> strategy]

\* Overflows without the test that the buffer is non-empty
OverflowsAnyBuffer(potentialChunk, buf, cfg) == Len(potentialChunk) > cfg.chunkSize

\* Overflows already when the joined buffer reaches chunkSize
OverflowsAtLimit(potentialChunk, buf, cfg) ==
    Len(potentialChunk) >= cfg.chunkSize /\ buf # <<>>

\* potentialChunk.length > config.chunkSize && currentChunk
Overflows(potentialChunk, buf, cfg) ==
    Len(potentialChunk) > cfg.chunkSize /\ buf # <<>>

\* one iteration of the for loop over the units, joined by sep
GreedyStep(strategy, units, sep) ==
    /\ i < Len(units)
    /\ LET trimmedUnit == Trim(units[i + 1])
           potentialChunk == Joined(currentChunk, sep, trimmedUnit)
       IN IF trimmedUnit = <<>>
          THEN UNCHANGED <<chunks, chunkId, currentIndex, currentChunk>>
          ELSE IF Overflows(potentialChunk, currentChunk, config)
          THEN /\ chunks' = Append(chunks,
                      SavedChunk(strategy, currentChunk, currentIndex, chunkId))
               /\ chunkId' = chunkId + 1
               /\ currentIndex' = currentIndex + Len(currentChunk)
               /\ currentChunk' = trimmedUnit
          ELSE /\ currentChunk' = potentialChunk
               /\ UNCHANGED <<chunks, chunkId, currentIndex>>
    /\ i' = i + 1
    /\ UNCHANGED <<pc, text, config, sentences, paragraphs, stack, iterations,
                   result, error>>
    /\ UNCHANGED <<callVars, pageVars>>

\* the loop is over: the remaining buffer is saved and chunks is returned
GreedyReturn(strategy, units) ==
    /\ i >= Len(units)
    /\ IF Trim(currentChunk) # <<>>
       THEN /\ chunks' = Append(chunks,
                   SavedChunk(strategy, currentChunk, currentIndex, chunkId))
            /\ chunkId' = chunkId + 1
       ELSE UNCHANGED <<chunks, chunkId>>
    /\ pc' = "return"
    /\ UNCHANGED <<text, config, currentIndex, currentChunk, sentences,
                   paragraphs, i, stack, iterations, result, error>>
    /\ UNCHANGED <<callVars, pageVars>>

SentenceStep == pc = "sentence" /\ GreedyStep("sentence", sentences, <<" ">>)

SentenceReturn == pc = "sentence" /\ GreedyReturn("sentence", sentences)

ParagraphStep == pc = "paragraph" /\ GreedyStep("paragraph", paragraphs, <<"\n", "\n">>)

ParagraphReturn == pc = "paragraph" /\ GreedyReturn("paragraph", paragraphs)

----------------------------------------------------------------------------
(* recursiveChunking: the calls of recursiveChunk are frames of stack.       *)
(* A frame holds the call's arguments (text, startIndex), the branch it is  *)
(* in (phase) and that branch's locals.                                     *)

ParagraphBreakWidth == 2
WordBreakWidth == 1

Top == stack[Len(stack)]

Pop == SubSeq(stack, 1, Len(stack) - 1)

ReplaceTop(frame) == [stack EXCEPT ![Len(stack)] = frame]

\* Call handing the callee the caller's whole text again
CallOnCallerText(callerFrame, t, start) ==
    Append(ReplaceTop(callerFrame), EntryFrame(callerFrame.text, start))

\* the caller's frame after the call, under the callee's fresh frame
Call(callerFrame, t, start) == Append(ReplaceTop(callerFrame), EntryFrame(t, start))

\* FitsInChunk measuring the text after trimming it
FitsInChunkTrimmed(t, cfg) == Len(Trim(t)) <= cfg.chunkSize

\* text.length <= config.chunkSize
FitsInChunk(t, cfg) == Len(t) <= cfg.chunkSize

\* the head of recursiveChunk: blank text, leaf, or the choice of the split
RecursiveEnter ==
    /\ pc = "recursive"
    /\ stack # <<>>
    /\ Top.phase = "entry"
    /\ LET t == Top.text
           paras == SplitParagraphs(t)
           sents == SplitSentences(t)
       IN IF Len(Trim(t)) = 0
          THEN /\ stack' = Pop
               /\ UNCHANGED <<chunks, chunkId>>
          ELSE IF FitsInChunk(t, config)
          THEN /\ chunks' = Append(chunks,
                      SavedChunk("recursive", t, Top.startIndex, chunkId))
               /\ chunkId' = chunkId + 1
               /\ stack' = Pop
          ELSE /\ UNCHANGED <<chunks, chunkId>>
               /\ stack' = ReplaceTop(
                      IF Len(paras) > 1
                      THEN [Top EXCEPT !.phase = "paragraphs", !.units = paras]
                      ELSE IF Len(sents) > 1
                      THEN [Top EXCEPT !.phase = "sentences", !.units = sents]
                      ELSE [Top EXCEPT !.phase = "words", !.units = SplitWords(t)])
    /\ UNCHANGED <<pc, text, config, currentIndex, currentChunk, sentences,
                   paragraphs, i, iterations, result, error>>
    /\ UNCHANGED <<callVars, pageVars>>

\* one iteration of the loop over the paragraphs, or its end
RecursiveParagraphStep ==
    /\ pc = "recursive"
    /\ stack # <<>>
    /\ Top.phase = "paragraphs"
    /\ IF Top.idx < Len(Top.units)
       THEN LET paragraph == Top.units[Top.idx + 1]
                after == [Top EXCEPT
                            !.idx = @ + 1,
                            !.currentIndex = @ + Len(paragraph) + ParagraphBreakWidth]
            IN IF Trim(paragraph) # <<>>
               THEN stack' = Call(after, Trim(paragraph), Top.currentIndex)
               ELSE stack' = ReplaceTop([Top EXCEPT !.idx = @ + 1])
       ELSE stack' = Pop
    /\ UNCHANGED <<pc, text, config, chunks, chunkId, currentIndex, currentChunk,
                   sentences, paragraphs, i, iterations, result, error>>
    /\ UNCHANGED <<callVars, pageVars>>

\* one iteration of the loop over the sentences, or the call on the remaining buffer
RecursiveSentenceStep ==
    /\ pc = "recursive"
    /\ stack # <<>>
    /\ Top.phase = "sentences"
    /\ IF Top.idx < Len(Top.units)
       THEN LET trimmedSentence == Trim(Top.units[Top.idx + 1])
                potentialChunk == Joined(Top.currentChunk, <<" ">>, trimmedSentence)
            IN IF trimmedSentence = <<>>
               THEN stack' = ReplaceTop([Top EXCEPT !.idx = @ + 1])
               ELSE IF Overflows(potentialChunk, Top.currentChunk, config)
               THEN stack' = Call([Top EXCEPT
                                     !.idx = @ + 1,
                                     !.currentIndex = @ + Len(Top.currentChunk),
                                     !.currentChunk = trimmedSentence],
                                  Top.currentChunk, Top.currentIndex)
               ELSE stack' = ReplaceTop([Top EXCEPT
                                     !.idx = @ + 1,
                                     !.currentChunk = potentialChunk])
       ELSE IF Trim(Top.currentChunk) # <<>>
            THEN stack' = Call([Top EXCEPT !.phase = "return"],
                               Top.currentChunk, Top.currentIndex)
            ELSE stack' = Pop
    /\ UNCHANGED <<pc, text, config, chunks, chunkId, currentIndex, currentChunk,
                   sentences, paragraphs, i, iterations, result, error>>
    /\ UNCHANGED <<callVars, pageVars>>

\* one iteration of the loop over the words, or the push of the remaining buffer
RecursiveWordStep ==
    /\ pc = "recursive"
    /\ stack # <<>>
    /\ Top.phase = "words"
    /\ IF Top.idx < Len(Top.units)
       THEN LET word == Top.units[Top.idx + 1]
                potentialChunk == Joined(Top.currentChunk, <<" ">>, word)
            IN IF Overflows(potentialChunk, Top.currentChunk, config)
               THEN /\ chunks' = Append(chunks,
                           SavedChunk("recursive", Top.currentChunk,
                                      Top.currentIndex, chunkId))
                    /\ chunkId' = chunkId + 1
                    /\ stack' = ReplaceTop([Top EXCEPT
                           !.idx = @ + 1,
                           !.currentIndex = @ + Len(Top.currentChunk) + WordBreakWidth,
                           !.currentChunk = word])
               ELSE /\ stack' = ReplaceTop([Top EXCEPT
                           !.idx = @ + 1,
                           !.currentChunk = potentialChunk])
                    /\ UNCHANGED <<chunks, chunkId>>
       ELSE /\ IF Trim(Top.currentChunk) # <<>>
               THEN /\ chunks' = Append(chunks,
                           SavedChunk("recursive", Top.currentChunk,
                                      Top.currentIndex, chunkId))
                    /\ chunkId' = chunkId + 1
               ELSE UNCHANGED <<chunks, chunkId>>
            /\ stack' = Pop
    /\ UNCHANGED <<pc, text, config, currentIndex, currentChunk, sentences,
                   paragraphs, i, iterations, result, error>>
    /\ UNCHANGED <<callVars, pageVars>>

\* a call that was waiting for its last callee returns
RecursiveChunkReturn ==
    /\ pc = "recursive"
    /\ stack # <<>>
    /\ Top.phase = "return"
    /\ stack' = Pop
    /\ UNCHANGED <<pc, text, config, chunks, chunkId, currentIndex, currentChunk,
                   sentences, paragraphs, i, iterations, result, error>>
    /\ UNCHANGED <<callVars, pageVars>>

\* recursiveChunk(text, 0) has returned: chunks is returned
RecursiveReturn ==
    /\ pc = "recursive"
    /\ stack = <<>>
    /\ pc' = "return"
    /\ UNCHANGED <<text, config, chunks, chunkId, currentIndex, currentChunk,
                   sentences, paragraphs, i, stack, iterations, result, error>>
    /\ UNCHANGED <<callVars, pageVars>>

----------------------------------------------------------------------------
(* semanticChunking *)

LowerCase == <<"a", "b", "c", "d", "e", "f", "g", "h", "i", "j", "k", "l", "m", "n", "o", "p", "q", "r", "s", "t", "u", "v", "w", "x", "y",
              "z">>
UpperCase == <<"A", "B", "C", "D", "E", "F", "G", "H", "I", "J", "K", "L", "M", "N", "O", "P", "Q", "R", "S", "T", "U", "V", "W", "X", "Y", "Z">>
Digits == {"0", "1", "2", "3", "4", "5", "6", "7", "8", "9"}

IsWordChar(c) ==
    \/ \E k \in 1..Len(LowerCase) : c = LowerCase[k] \/ c = UpperCase[k]
    \/ c \in Digits
    \/ c = "_"

\* String.prototype.toLowerCase on the capitals A to Z
LowerCaseOf ==
    [c \in {UpperCase[k] : k \in 1..Len(UpperCase)} |->
        LowerCase[CHOOSE k \in 1..Len(UpperCase) : UpperCase[k] = c]]

\* KELVIN SIGN, whose lower case is the letter k
KelvinSign == "U+212A"

\* LATIN CAPITAL LETTER I WITH DOT ABOVE, whose lower case is the two code
\* units i and U+0307 (combining dot above)
DottedCapitalI == "U+0130"

\* c.toLowerCase().replace(/[^\w\s]/g, ' ') for one code unit c.  Lower-casing
\* yields a \w character for the capitals A to Z, for KelvinSign and (followed
\* by U+0307) for DottedCapitalI; a \w or \s character is its own lower case;
\* every other code unit, a half of a surrogate pair included, has a lower
\* case outside \w and \s of as many code units, which the replacement turns
\* into spaces.
LowerCaseCleanedUnit(c) ==
    IF c \in DOMAIN LowerCaseOf THEN <<LowerCaseOf[c]>>
    ELSE IF c = KelvinSign THEN <<"k">>
    ELSE IF c = DottedCapitalI THEN <<"i", " ">>
    ELSE IF IsWordChar(c) \/ c \in WhiteSpace THEN <<c>>
    ELSE <<" ">>

\* text.toLowerCase().replace(/[^\w\s]/g, ' ')
RECURSIVE LowerCaseCleaned(_)
LowerCaseCleaned(s) ==
    LET long == {k \in 1..Len(s) : Len(LowerCaseCleanedUnit(s[k])) > 1}
    IN IF long = {} THEN [k \in 1..Len(s) |-> LowerCaseCleanedUnit(s[k])[1]]
       ELSE LET k == CHOOSE h \in long : \A j \in long : h <= j
            IN [j \in 1..(k - 1) |-> LowerCaseCleanedUnit(s[j])[1]]
                   \o LowerCaseCleanedUnit(s[k])
                   \o LowerCaseCleaned(SubSeq(s, k + 1, Len(s)))

stopWords == {
    <<"t", "h", "e">>, <<"a">>, <<"a", "n">>, <<"a", "n", "d">>,
    <<"o", "r">>, <<"b", "u", "t">>, <<"i", "n">>, <<"o", "n">>,
    <<"a", "t">>, <<"t", "o">>, <<"f", "o", "r">>, <<"o", "f">>,
    <<"w", "i", "t", "h">>, <<"b", "y">>, <<"i", "s">>, <<"a", "r", "e">>,
    <<"w", "a", "s">>, <<"w", "e", "r", "e">>, <<"b", "e">>,
    <<"b", "e", "e", "n">>, <<"h", "a", "v", "e">>, <<"h", "a", "s">>,
    <<"h", "a", "d">>, <<"d", "o">>, <<"d", "o", "e", "s">>,
    <<"d", "i", "d">>, <<"w", "i", "l", "l">>, <<"w", "o", "u", "l", "d">>,
    <<"c", "o", "u", "l", "d">>, <<"s", "h", "o", "u", "l", "d">>,
    <<"m", "a", "y">>, <<"m", "i", "g", "h", "t">>, <<"c", "a", "n">>,
    <<"t", "h", "i", "s">>, <<"t", "h", "a", "t">>,
    <<"t", "h", "e", "s", "e">>, <<"t", "h", "o", "s", "e">>, <<"i">>,
    <<"y", "o", "u">>, <<"h", "e">>, <<"s", "h", "e">>, <<"i", "t">>,
    <<"w", "e">>, <<"t", "h", "e", "y">>}

KeywordLimit == 20

\* text.toLowerCase().replace(/[^\w\s]/g, ' ').split(/\s+/).filter(...).slice(0, 20)
extractKeywords(s) ==
    LET words == SelectSeq(Split("word", LowerCaseCleaned(s)),
                           LAMBDA w : Len(w) > 2 /\ w \notin stopWords)
        kept == SubSeq(words, 1, Min(Len(words), KeywordLimit))
    IN {kept[k] : k \in 1..Len(kept)}

\* calculateSimilarity dividing by the sum of the sizes instead of the union's
calculateSimilarityOverSum(set1, set2) ==
    IF Cardinality(set1) = 0 \/ Cardinality(set2) = 0 THEN <<0, 1>>
    ELSE <<Cardinality(set1 \cap set2), Cardinality(set1) + Cardinality(set2)>>

\* intersection.size / union.size as the fraction <<numerator, denominator>>
calculateSimilarity(set1, set2) ==
    IF Cardinality(set1) = 0 \/ Cardinality(set2) = 0 THEN <<0, 1>>
    ELSE <<Cardinality(set1 \cap set2), Cardinality(set1 \cup set2)>>

transitionIndicators == {
    <<"h", "o", "w", "e", "v", "e", "r">>,
    <<"m", "o", "r", "e", "o", "v", "e", "r">>,
    <<"f", "u", "r", "t", "h", "e", "r", "m", "o", "r", "e">>,
    <<"a", "d", "d", "i", "t", "i", "o", "n", "a", "l", "l", "y">>,
    <<"m", "e", "a", "n", "w", "h", "i", "l", "e">>,
    <<"s", "u", "b", "s", "e", "q", "u", "e", "n", "t", "l", "y">>,
    <<"c", "o", "n", "s", "e", "q", "u", "e", "n", "t", "l", "y">>,
    <<"t", "h", "e", "r", "e", "f", "o", "r", "e">>, <<"t", "h", "u", "s">>,
    <<"h", "e", "n", "c", "e">>,
    <<"i", "n", " ", "c", "o", "n", "t", "r", "a", "s", "t">>,
    <<"o", "n", " ", "t", "h", "e", " ", "o", "t", "h", "e", "r", " ", "h", "a", "n", "d">>,
    <<"a", "l", "t", "e", "r", "n", "a", "t", "i", "v", "e", "l", "y">>,
    <<"c", "o", "n", "v", "e", "r", "s", "e", "l", "y">>,
    <<"f", "i", "r", "s", "t">>, <<"s", "e", "c", "o", "n", "d">>,
    <<"t", "h", "i", "r", "d">>, <<"f", "i", "n", "a", "l", "l", "y">>,
    <<"l", "a", "s", "t", "l", "y">>,
    <<"i", "n", " ", "c", "o", "n", "c", "l", "u", "s", "i", "o", "n">>,
    <<"c", "h", "a", "p", "t", "e", "r">>,
    <<"s", "e", "c", "t", "i", "o", "n">>}

\* The flag i (without the flag u) on a letter p of a pattern: p matches
\* itself and its capital.  No character outside ASCII matches an ASCII
\* letter, since the canonical form of a character never moves into ASCII.
MatchesIgnoreCase(c, p) ==
    c = p \/ \E k \in 1..Len(LowerCase) : p = LowerCase[k] /\ c = UpperCase[k]

\* /^p/i for a pattern p of small letters and spaces
HasPrefix(s, p) ==
    Len(s) >= Len(p) /\ \A k \in 1..Len(p) : MatchesIgnoreCase(s[k], p[k])

\* /^\d+\./
StartsWithNumbering(s) ==
    \E k \in 2..Len(s) : s[k] = "." /\ \A j \in 1..(k - 1) : s[j] \in Digits

detectTopicTransition(currentText, nextSentence) ==
    LET t == Trim(nextSentence)
    IN \/ \E p \in transitionIndicators : HasPrefix(t, p)
       \/ StartsWithNumbering(t)

\* The numbers of the source are IEEE 754 doubles.  A similarity is kept as
\* the pair <<intersection, union>> and becomes a double where the source
\* divides.  A positive double is significand * 2^(exp - 52), its 53-digit
\* significand kept in three parts: hi * Limb^2 + mid * Limb + lo.

\* 2^18: the weight of mid in the significand, in units of lo
Limb == 262144

\* 2^16: the leading binary digit of the significand, in units of hi
TopBit == 65536

DoubleZero == [zero |-> TRUE, exp |-> 0, hi |-> 0, mid |-> 0, lo |-> 0]

\* the next double above x
NextUp(x) ==
    IF x.lo + 1 < Limb THEN [x EXCEPT !.lo = @ + 1]
    ELSE IF x.mid + 1 < Limb THEN [x EXCEPT !.lo = 0, !.mid = @ + 1]
    ELSE IF x.hi + 1 < 2 * TopBit THEN [x EXCEPT !.lo = 0, !.mid = 0, !.hi = @ + 1]
    ELSE [x EXCEPT !.lo = 0, !.mid = 0, !.hi = TopBit, !.exp = @ + 1]

\* Round to nearest, ties to even: x holds the first 53 digits of a number,
\* half is its next digit, more says that non-zero digits follow that one.
Nearest(x, half, more) ==
    IF half /\ (more \/ x.lo % 2 = 1) THEN NextUp(x) ELSE x

\* the number of doublings that take num to den or above
RECURSIVE ShiftOf(_, _)
ShiftOf(num, den) == IF num >= den THEN 0 ELSE 1 + ShiftOf(2 * num, den)

\* num doubled until it is den or above
RECURSIVE Scaled(_, _)
Scaled(num, den) == IF num >= den THEN num ELSE Scaled(2 * num, den)

\* the double num / den of the source, for 0 <= num <= den and 0 < den < 8192:
\* long division, 16 + 18 + 18 binary digits after the leading one
Quotient(num, den) ==
    IF num = 0 THEN DoubleZero
    ELSE LET r0 == Scaled(num, den) - den
             r1 == (r0 * TopBit) % den
             r2 == (r1 * Limb) % den
             r3 == (r2 * Limb) % den
         IN Nearest([zero |-> FALSE,
                     exp |-> 0 - ShiftOf(num, den),
                     hi |-> TopBit + (r0 * TopBit) \div den,
                     mid |-> (r1 * Limb) \div den,
                     lo |-> (r2 * Limb) \div den],
                    2 * r3 >= den, (2 * r3) % den # 0)

\* the double x * 1.5: three times the significand, which has one or two
\* digits more than 53, rounded
TimesOneAndAHalf(x) ==
    IF x.zero THEN x
    ELSE LET lo3 == 3 * x.lo
             mid3 == 3 * x.mid + lo3 \div Limb
             hi3 == 3 * x.hi + mid3 \div Limb
             l == lo3 % Limb
             m == mid3 % Limb
             k == IF hi3 >= 4 * TopBit THEN 4 ELSE 2
             out == l % k
         IN Nearest([zero |-> FALSE,
                     exp |-> IF k = 4 THEN x.exp + 1 ELSE x.exp,
                     hi |-> hi3 \div k,
                     mid |-> m \div k + (hi3 % k) * (Limb \div k),
                     lo |-> l \div k + (m % k) * (Limb \div k)],
                    2 * out >= k, (2 * out) % k # 0)

\* x > y on doubles that are not negative
DoubleGreater(x, y) ==
    IF x.zero THEN FALSE
    ELSE IF y.zero THEN TRUE
    ELSE \/ x.exp > y.exp
         \/ x.exp = y.exp /\ x.hi > y.hi
         \/ x.exp = y.exp /\ x.hi = y.hi /\ x.mid > y.mid
         \/ x.exp = y.exp /\ x.hi = y.hi /\ x.mid = y.mid /\ x.lo > y.lo

\* The products maxSize * 0.3, 0.6, 0.4, 0.5 and the test similarity < 0.2 are
\* compared in exact arithmetic, which gives what the doubles of the source
\* give for every maxSize up to 200000 and every similarity of sets of fewer
\* than 200 words; similarity * 1.5 is not exact (0.6 * 1.5 is below 0.9) and
\* is computed as the double it is.
\* TooSmallToSplit with the test left out: a buffer of any size may be split off
TooSmallNever(buf, maxSize) == FALSE

\* currentChunk.length < maxSize * 0.3
TooSmallToSplit(buf, maxSize) == 10 * Len(buf) < 3 * maxSize

shouldSplitSemantically(buf, nextSentence, totalLength, maxSize, followingSentence) ==
    IF totalLength > maxSize THEN TRUE
    ELSE IF TooSmallToSplit(buf, maxSize) THEN FALSE
    ELSE LET currentWords == extractKeywords(buf)
             nextWords == extractKeywords(nextSentence)
             followingWords == IF followingSentence # <<>>
                               THEN extractKeywords(followingSentence) ELSE {}
             similarity == calculateSimilarity(currentWords, nextWords)
             contextualSimilarity ==
                 IF followingSentence # <<>>
                 THEN calculateSimilarity(nextWords, followingWords)
                 ELSE <<0, 1>>
             hasTopicTransition == detectTopicTransition(buf, nextSentence)
         IN \/ 5 * similarity[1] < similarity[2] /\ 10 * totalLength > 6 * maxSize
            \/ hasTopicTransition /\ 10 * totalLength > 4 * maxSize
            \/ /\ DoubleGreater(
                      Quotient(contextualSimilarity[1], contextualSimilarity[2]),
                      TimesOneAndAHalf(Quotient(similarity[1], similarity[2])))
               /\ 2 * totalLength > maxSize

\* one iteration of the for loop
SemanticStep ==
    /\ pc = "semantic"
    /\ i < Len(sentences)
    /\ LET sentence == Trim(sentences[i + 1])
           potentialChunk == Joined(currentChunk, <<" ">>, sentence)
           shouldSplit == shouldSplitSemantically(currentChunk, sentence,
                              Len(potentialChunk), config.chunkSize,
                              IF i < Len(sentences) - 1 THEN sentences[i + 2] ELSE <<>>)
       IN IF sentence = <<>>
          THEN UNCHANGED <<chunks, chunkId, currentIndex, currentChunk>>
          ELSE IF shouldSplit /\ Trim(currentChunk) # <<>>
          THEN /\ chunks' = Append(chunks,
                      SavedChunk("semantic", currentChunk, currentIndex, chunkId))
               /\ chunkId' = chunkId + 1
               /\ currentIndex' = currentIndex + Len(currentChunk)
               /\ currentChunk' = sentence
          ELSE /\ currentChunk' = potentialChunk
               /\ UNCHANGED <<chunks, chunkId, currentIndex>>
    /\ i' = i + 1
    /\ UNCHANGED <<pc, text, config, sentences, paragraphs, stack, iterations,
                   result, error>>
    /\ UNCHANGED <<callVars, pageVars>>

SemanticReturn == pc = "semantic" /\ GreedyReturn("semantic", sentences)

----------------------------------------------------------------------------

Next ==
    \/ ChunkText
    \/ ChunkTextReturn
    \/ FixedSizeStep
    \/ FixedSizeReturn
    \/ SentenceStep
    \/ SentenceReturn
    \/ ParagraphStep
    \/ ParagraphReturn
    \/ RecursiveEnter
    \/ RecursiveParagraphStep
    \/ RecursiveSentenceStep
    \/ RecursiveWordStep
    \/ RecursiveChunkReturn
    \/ RecursiveReturn
    \/ SemanticStep
    \/ SemanticReturn

Spec == Init /\ [][Next]_vars

----------------------------------------------------------------------------
(* A recursive run that is scheduled until it returns: once called, the     *)
(* strategy is a chain of awaits on its own calls, which the event loop     *)
(* always resumes.                                                          *)

\* recursive calls with chunkSize > 0, on the texts shorter than MaxLen and
\* on the longer examples
RecursiveInputs ==
    (AllTexts(MaxLen - 1) \cup ScenarioTexts)
        \X [chunkSize : 1..MaxChunkSize, overlap : {0}, strategy : {"recursive"}]

StartRecursive == ChunkTextOn(RecursiveInputs)

NextRecursive ==
    \/ StartRecursive
    \/ RecursiveEnter
    \/ RecursiveParagraphStep
    \/ RecursiveSentenceStep
    \/ RecursiveWordStep
    \/ RecursiveChunkReturn
    \/ RecursiveReturn
    \/ ChunkTextReturn

SpecRecursive == Init /\ [][NextRecursive]_vars /\ WF_vars(NextRecursive)

----------------------------------------------------------------------------
(* Semantic runs on texts of English sentences, where the keyword sets, the *)
(* discourse markers and the size thresholds all come into play.            *)

ExampleSentences == {
    \* "cats purr."
    <<"c", "a", "t", "s", " ", "p", "u", "r", "r", ".">>,
    \* "cats nap."
    <<"c", "a", "t", "s", " ", "n", "a", "p", ".">>,
    \* "dogs bark."
    <<"d", "o", "g", "s", " ", "b", "a", "r", "k", ".">>,
    \* "However dogs nap."
    <<"H", "o", "w", "e", "v", "e", "r", " ", "d", "o", "g", "s", " ", "n",
      "a", "p", ".">>,
    \* "It is."
    <<"I", "t", " ", "i", "s", ".">>,
    \* "2."
    <<"2", ".">>}

\* two or three of the sentences, one space apart
ExampleTexts ==
    {s[1] \o <<" ">> \o s[2] : s \in ExampleSentences \X ExampleSentences}
    \cup {s[1] \o <<" ">> \o s[2] \o <<" ">> \o s[3] :
             s \in ExampleSentences \X ExampleSentences \X ExampleSentences}

ExampleChunkSizes == {20, 25, 30, 35, 40, 50}

\* Three sentences whose similarities are 6/10 and 9/10: exactly one and a
\* half times, which the doubles 0.9 and 0.6 * 1.5 of the source are not
\*   "naq nbq ncq ndq neq nfq zzz. naq nbq ncq ndq neq nfq ngq nhq niq.
\*    naq nbq ncq ndq neq nfq ngq nhq niq yyy."
RoundingText ==
    <<"n", "a", "q", " ", "n", "b", "q", " ", "n", "c", "q", " ", "n", "d",
      "q", " ", "n", "e", "q", " ", "n", "f", "q", " ", "z", "z", "z", ".",
      " ", "n", "a", "q", " ", "n", "b", "q", " ", "n", "c", "q", " ", "n",
      "d", "q", " ", "n", "e", "q", " ", "n", "f", "q", " ", "n", "g", "q",
      " ", "n", "h", "q", " ", "n", "i", "q", ".", " ", "n", "a", "q", " ",
      "n", "b", "q", " ", "n", "c", "q", " ", "n", "d", "q", " ", "n", "e",
      "q", " ", "n", "f", "q", " ", "n", "g", "q", " ", "n", "h", "q", " ",
      "n", "i", "q", " ", "y", "y", "y", ".">>

RoundingConfig == [chunkSize |-> 75, overlap |-> 0, strategy |-> "semantic"]

SemanticInputs ==
    (ExampleTexts
        \X [chunkSize : ExampleChunkSizes, overlap : {0}, strategy : {"semantic"}])
    \cup {<<RoundingText, RoundingConfig>>}

StartSemantic == ChunkTextOn(SemanticInputs)

NextSemantic ==
    \/ StartSemantic
    \/ SemanticStep
    \/ SemanticReturn
    \/ ChunkTextReturn

SpecSemantic == Init /\ [][NextSemantic]_vars

----------------------------------------------------------------------------
(* Two chunkText calls on one event loop.  The variables of locals hold the *)
(* call that is executing; a call suspended at an await keeps its locals in *)
(* calls until the event loop resumes it.                                   *)

CallIds == {1, 2}

\* the calls are semantic runs on the longer texts
InterleavedInputs ==
    ScenarioTexts
        \X [chunkSize : 1..MaxChunkSize, overlap : {0}, strategy : {"semantic"}]

\* the locals of the executing call, as they are kept while it is suspended
Context ==
    [pc |-> pc, text |-> text, config |-> config, chunks |-> chunks,
     chunkId |-> chunkId, currentIndex |-> currentIndex,
     currentChunk |-> currentChunk, sentences |-> sentences,
     paragraphs |-> paragraphs, i |-> i, stack |-> stack,
     iterations |-> iterations, result |-> result, error |-> error]

\* a call that has not been made yet
IdleContext ==
    [pc |-> "idle", text |-> <<>>,
     config |-> [chunkSize |-> 1, overlap |-> 0, strategy |-> "fixed"],
     chunks |-> <<>>, chunkId |-> 0, currentIndex |-> 0, currentChunk |-> <<>>,
     sentences |-> <<>>, paragraphs |-> <<>>, i |-> 0, stack |-> <<>>,
     iterations |-> 0, result |-> NoResult, error |-> NoError]

\* The executing call is at an await (or has not started, or is over): of the
\* strategies only semanticChunking and recursiveChunk await inside their
\* loops, and chunkText awaits the strategy it called.
AtAwait == pc \in {"idle", "semantic", "recursive", "return", "done", "error"}

\* ResumedChunkId for a counter kept in a static field: one for all calls
ResumedChunkIdShared(ctx) == chunkId

\* let chunkId = 0 is a local of the strategy: every call has its own
ResumedChunkId(ctx) == ctx.chunkId

\* const chunks: TextChunk[] = [] is a local of the strategy as well
ResumedChunks(ctx) == ctx.chunks

\* the locals of call c replace those of the executing call, which are kept
Switch(c) ==
    /\ c \in DOMAIN calls
    /\ AtAwait
    /\ running' = c
    /\ calls' = [d \in (DOMAIN calls \ {c}) \cup {running} |->
                    IF d = running THEN Context ELSE calls[d]]
    /\ pc' = calls[c].pc
    /\ text' = calls[c].text
    /\ config' = calls[c].config
    /\ chunks' = ResumedChunks(calls[c])
    /\ chunkId' = ResumedChunkId(calls[c])
    /\ currentIndex' = calls[c].currentIndex
    /\ currentChunk' = calls[c].currentChunk
    /\ sentences' = calls[c].sentences
    /\ paragraphs' = calls[c].paragraphs
    /\ i' = calls[c].i
    /\ stack' = calls[c].stack
    /\ iterations' = calls[c].iterations
    /\ result' = calls[c].result
    /\ error' = calls[c].error

\* the event loop leaves the executing call at its await and runs call c
Resume(c) == Switch(c) /\ UNCHANGED pageVars

Yield == \E c \in CallIds : Resume(c)

StartCall == ChunkTextOn(InterleavedInputs)

InitInterleaved ==
    /\ pc = "idle"
    /\ text = <<>>
    /\ config = [chunkSize |-> 1, overlap |-> 0, strategy |-> "fixed"]
    /\ chunks = <<>>
    /\ chunkId = 0
    /\ currentIndex = 0
    /\ currentChunk = <<>>
    /\ sentences = <<>>
    /\ paragraphs = <<>>
    /\ i = 0
    /\ stack = <<>>
    /\ iterations = 0
    /\ result = NoResult
    /\ error = NoError
    /\ running = 1
    /\ calls = [c \in CallIds \ {1} |-> IdleContext]
    /\ InitPage

NextInterleaved ==
    \/ StartCall
    \/ SemanticStep
    \/ SemanticReturn
    \/ ChunkTextReturn
    \/ Yield

SpecInterleaved == InitInterleaved /\ [][NextInterleaved]_vars

----------------------------------------------------------------------------
(* The configuration surface: StrategySelector's handlers call              *)
(* onConfigChange, which is Index's handleConfigChange.                     *)

\* <Slider min={100} max={5000} step={100}> of the chunk size
ChunkSizeMin == 100
ChunkSizeMax == 5000
ChunkSizeStep == 100

\* <Slider min={0} max={Math.min(config.chunkSize / 2, 1000)} step={10}> of
\* the overlap
OverlapMin == 0
OverlapLimit == 1000
OverlapStep == 10

\* the positions of a slider: min, min + step, ... up to max
SliderValues(min, max, step) ==
    {min + k * step : k \in 0..((max - min) \div step)}

\* Math.min(config.chunkSize / 2, 1000); chunkSize is a multiple of 100
OverlapMax(cfg) == Min(cfg.chunkSize \div 2, OverlapLimit)

\* the locals of call c, executing or suspended
ContextOf(c) == IF c = running THEN Context ELSE calls[c]

\* the run made last has not entered chunkText yet: the handler that made it
\* is still on the stack
Entering == lastRun # 0 /\ ContextOf(lastRun).pc = "idle"

TimerQueue == {timers[k] : k \in 1..Len(timers)}

\* a handleFileUpload call awaits a performChunking run that has settled: its
\* continuation is the next microtask
FinallyDue ==
    \E k \in 1..Len(uploads) : uploads[k].run # 0 /\ uploads[k].run \notin pending

\* the event loop is between tasks: no handler is on the stack, no
\* continuation is due and every run in flight waits on a timer
Quiet ==
    /\ ~Entering
    /\ ~FinallyDue
    /\ running \in pending => running \in TimerQueue

\* a sequence without its k-th element
RemoveAt(s, k) == SubSeq(s, 1, k - 1) \o SubSeq(s, k + 1, Len(s))

\* the number of performChunking runs of a behaviour
MaxRuns == 2

RunIds == 1..MaxRuns

\* performChunking up to its call of chunkText, which run lastRun + 1 makes
PerformChunking(t, cfg) ==
    /\ lastRun < MaxRuns
    /\ isChunking' = TRUE
    /\ request' = <<[text |-> t, config |-> cfg]>>
    /\ lastRun' = lastRun + 1
    /\ pending' = pending \cup {lastRun + 1}

\* handleConfigChange(newConfig): the config is stored, and chunked with when
\* a PDF is loaded
HandleConfigChange(newConfig) ==
    /\ Quiet
    /\ chunkingConfig' = newConfig
    /\ IF pdfData # NoPdf
       THEN PerformChunking(pdfData.text, newConfig)
       ELSE UNCHANGED <<isChunking, request, lastRun, pending>>
    /\ UNCHANGED <<pdfData, chunkingResult, isProcessing, uploadProgress,
                   progressIntervals, uploads, uploadedFile, uploadError,
                   timers, yieldedAt>>
    /\ UNCHANGED <<locals, callVars>>

\* onConfigChange({ ...config, strategy })
HandleStrategyChange ==
    \E strategy \in Strategies :
        HandleConfigChange([chunkingConfig EXCEPT !.strategy = strategy])

\* onConfigChange({ ...config, chunkSize: value[0] })
HandleChunkSizeChange ==
    \E value \in SliderValues(ChunkSizeMin, ChunkSizeMax, ChunkSizeStep) :
        HandleConfigChange([chunkingConfig EXCEPT !.chunkSize = value])

\* onConfigChange({ ...config, overlap: value[0] })
HandleOverlapChange ==
    \E value \in SliderValues(OverlapMin, OverlapMax(chunkingConfig), OverlapStep) :
        HandleConfigChange([chunkingConfig EXCEPT !.overlap = value])

\* the selector before any PDF is loaded
NextSelector ==
    \/ HandleStrategyChange
    \/ HandleChunkSizeChange
    \/ HandleOverlapChange

SpecSelector == Init /\ [][NextSelector]_vars

----------------------------------------------------------------------------
(* The page: a PDF is dropped on PDFUpload, handleFileUpload parses and     *)
(* chunks it, and every change of strategy chunks it again.  Handlers and   *)
(* timer callbacks start when the event loop is quiet; a run then executes  *)
(* until it awaits a setTimeout or settles.                                 *)

\* the files the user drops
Files == {"paper.pdf"}

\* the text a PDF parses to
PdfTexts == ScenarioTexts

\* the strategies the user switches between
RunStrategies == {"fixed", "semantic"}

\* the number of progress intervals alive at once
MaxIntervals == 2

\* if (i % 100 === 0) await new Promise(resolve => setTimeout(resolve, 1))
YieldEvery == 100

\* setInterval(() => setUploadProgress(prev => Math.min(prev + 10, 90)), 100)
ProgressIncrement == 10
ProgressCeiling == 90

\* setUploadProgress(100)
ProgressComplete == 100

\* the executing run is on the stack, or in the microtasks of its awaits
Executing == running \in pending /\ running \notin TimerQueue /\ ~Entering

\* semanticChunking has finished iteration i - 1 with (i - 1) % 100 = 0 and
\* has not awaited the timer of that iteration yet
TimerDue ==
    /\ pc = "semantic"
    /\ i >= 1
    /\ (i - 1) % YieldEvery = 0
    /\ <<running, i>> \notin yieldedAt

\* PDFUpload.onDrop and handleFileUpload up to the await of parseFile.  Neither
\* reads isProcessing: a file can be dropped while another is in flight.  The
\* call keeps the chunkingConfig of the render it was made in (config), and
\* awaits parseFile (run 0) and later its performChunking run.
OnDrop ==
    /\ Quiet
    /\ progressIntervals < MaxIntervals
    /\ \E file \in Files : uploadedFile' = file
    /\ uploadError' = NoMessage
    /\ isProcessing' = TRUE
    /\ uploadProgress' = 0
    /\ progressIntervals' = progressIntervals + 1
    /\ uploads' = Append(uploads, [config |-> chunkingConfig, run |-> 0])
    /\ UNCHANGED <<chunkingConfig, pdfData, chunkingResult, isChunking,
                   request, pending, lastRun, timers, yieldedAt>>
    /\ UNCHANGED <<locals, callVars>>

\* a callback of a progress interval
ProgressTick ==
    /\ Quiet
    /\ progressIntervals > 0
    /\ uploadProgress' = Min(uploadProgress + ProgressIncrement, ProgressCeiling)
    /\ UNCHANGED <<chunkingConfig, pdfData, chunkingResult, isProcessing,
                   isChunking, progressIntervals, uploads, uploadedFile,
                   uploadError, request, pending, lastRun, timers, yieldedAt>>
    /\ UNCHANGED <<locals, callVars>>

\* parseFile resolves: handleFileUpload from clearInterval to the await of
\* performChunking
ParseResolves ==
    /\ Quiet
    /\ \E k \in 1..Len(uploads) :
        /\ uploads[k].run = 0
        /\ \E t \in PdfTexts :
            /\ pdfData' = [text |-> t, pages |-> 1]
            /\ PerformChunking(t, uploads[k].config)
        /\ uploads' = [uploads EXCEPT ![k].run = lastRun + 1]
    /\ progressIntervals' = progressIntervals - 1
    /\ uploadProgress' = ProgressComplete
    /\ UNCHANGED <<chunkingConfig, chunkingResult, isProcessing,
                   uploadedFile, uploadError, timers, yieldedAt>>
    /\ UNCHANGED <<locals, callVars>>

\* parseFile rejects: the catch and the finally of handleFileUpload, which
\* returns normally, so the await in onDrop resolves
ParseRejects ==
    /\ Quiet
    /\ \E k \in 1..Len(uploads) :
        /\ uploads[k].run = 0
        /\ uploads' = RemoveAt(uploads, k)
    /\ isProcessing' = FALSE
    /\ uploadProgress' = 0
    /\ UNCHANGED <<chunkingConfig, pdfData, chunkingResult, isChunking,
                   progressIntervals, uploadedFile, uploadError,
                   request, pending, lastRun, timers, yieldedAt>>
    /\ UNCHANGED <<locals, callVars>>

\* onConfigChange({ ...config, strategy }) with one of the two strategies
SwitchStrategy ==
    \E strategy \in RunStrategies :
        /\ strategy # chunkingConfig.strategy
        /\ HandleConfigChange([chunkingConfig EXCEPT !.strategy = strategy])

\* the new run gets locals of its own
SwitchToRun == Entering /\ running # lastRun /\ Resume(lastRun)

\* performChunking calls chunkText(text, config)
EnterRun ==
    /\ Entering
    /\ running = lastRun
    /\ ChunkTextOn({<<request[1].text, request[1].config>>})

RunFixedSizeStep == Executing /\ FixedSizeStep

RunFixedSizeReturn == Executing /\ FixedSizeReturn

RunSemanticStep == Executing /\ ~TimerDue /\ SemanticStep

RunSemanticReturn == Executing /\ ~TimerDue /\ SemanticReturn

RunChunkTextReturn == Executing /\ ChunkTextReturn

\* the executing run awaits setTimeout(resolve, 1)
SetTimeout ==
    /\ Executing
    /\ TimerDue
    /\ timers' = Append(timers, running)
    /\ yieldedAt' = yieldedAt \cup {<<running, i>>}
    /\ UNCHANGED <<chunkingConfig, pdfData, chunkingResult, isProcessing,
                   isChunking, uploadProgress, progressIntervals, uploads,
                   uploadedFile, uploadError, request, pending, lastRun>>
    /\ UNCHANGED <<locals, callVars>>

\* the oldest timer fires and its run goes on
TimerFires ==
    /\ Quiet
    /\ timers # <<>>
    /\ timers' = Tail(timers)
    /\ IF Head(timers) = running
       THEN UNCHANGED <<locals, callVars>>
       ELSE Switch(Head(timers))
    /\ UNCHANGED <<chunkingConfig, pdfData, chunkingResult, isProcessing,
                   isChunking, uploadProgress, progressIntervals, uploads,
                   uploadedFile, uploadError, request, pending, lastRun,
                   yieldedAt>>

\* chunkText has settled: the rest of performChunking
PerformChunkingSettles ==
    /\ Executing
    /\ pc \in {"done", "error"}
    /\ chunkingResult' = IF pc = "done" THEN result ELSE chunkingResult
    /\ isChunking' = FALSE
    /\ pending' = pending \ {running}
    /\ UNCHANGED <<chunkingConfig, pdfData, isProcessing, uploadProgress,
                   progressIntervals, uploads, uploadedFile, uploadError,
                   request, lastRun, timers, yieldedAt>>
    /\ UNCHANGED <<locals, callVars>>

\* the await of performChunking in handleFileUpload resolves: its finally
HandleFileUploadReturns ==
    /\ ~Entering
    /\ \E k \in 1..Len(uploads) :
        /\ uploads[k].run # 0
        /\ uploads[k].run \notin pending
        /\ uploads' = RemoveAt(uploads, k)
    /\ isProcessing' = FALSE
    /\ uploadProgress' = 0
    /\ UNCHANGED <<chunkingConfig, pdfData, chunkingResult, isChunking,
                   progressIntervals, uploadedFile, uploadError, request,
                   pending, lastRun, timers, yieldedAt>>
    /\ UNCHANGED <<locals, callVars>>

InitRuns ==
    /\ pc = "idle"
    /\ text = <<>>
    /\ config = [chunkSize |-> 1, overlap |-> 0, strategy |-> "fixed"]
    /\ chunks = <<>>
    /\ chunkId = 0
    /\ currentIndex = 0
    /\ currentChunk = <<>>
    /\ sentences = <<>>
    /\ paragraphs = <<>>
    /\ i = 0
    /\ stack = <<>>
    /\ iterations = 0
    /\ result = NoResult
    /\ error = NoError
    /\ running = 1
    /\ calls = [c \in RunIds \ {1} |-> IdleContext]
    /\ InitPage

NextPage ==
    \/ OnDrop
    \/ ProgressTick
    \/ ParseResolves
    \/ ParseRejects
    \/ SwitchStrategy
    \/ SwitchToRun
    \/ EnterRun
    \/ RunFixedSizeStep
    \/ RunFixedSizeReturn
    \/ RunSemanticStep
    \/ RunSemanticReturn
    \/ RunChunkTextReturn
    \/ SetTimeout
    \/ TimerFires
    \/ PerformChunkingSettles
    \/ HandleFileUploadReturns

SpecPage == InitRuns /\ [][NextPage]_vars

----------------------------------------------------------------------------
(* Properties *)

Called == pc # "idle"

Returned == pc = "done" /\ result # NoResult

InvalidSizes(cfg) == cfg.overlap >= cfg.chunkSize \/ cfg.chunkSize <= 0

RECURSIVE ConcatContents(_)
ConcatContents(cs) ==
    IF cs = <<>> THEN <<>> ELSE Head(cs).content \o ConcatContents(Tail(cs))

NonWhiteSpace(s) == SelectSeq(s, LAMBDA c : c \notin WhiteSpace)

CeilDiv(a, b) == (a + b - 1) \div b

\* C1: a configuration with overlap >= chunkSize or chunkSize <= 0 is rejected with
\* an error before any strategy runs; in particular the fixed-size loop never
\* runs with a step chunkSize - overlap <= 0.  Stated for the texts that reach
\* the dispatch (C3 covers the empty ones).
C1_InvalidSizesRejected ==
    (Called /\ InvalidSizes(config) /\ ~IsBlank(text)) =>
        /\ pc = "error"
        /\ error # NoError
        /\ result = NoResult
        /\ iterations = 0

\* C2: for any text, a call whose strategy is not one of the five fails with an
\* error that names the unknown strategy, and never returns a result.  Stated
\* for configurations whose sizes are valid, so that the strategy is the only
\* thing wrong with the call.
C2_UnknownStrategyFails ==
    (Called /\ config.strategy \notin Strategies /\ ~InvalidSizes(config)) =>
        /\ pc = "error"
        /\ result = NoResult
        /\ error # NoError
        /\ \E k \in DOMAIN error.message : error.message[k] = config.strategy

\* C3: an empty or whitespace-only text returns, without error and without any
\* strategy being entered, the result with no chunks, totalChunks 0,
\* averageChunkSize 0 and processingTime 0.
C3_EmptyTextResult ==
    (Called /\ IsBlank(text)) =>
        /\ pc = "done"
        /\ error = NoError
        /\ result.chunks = <<>>
        /\ result.totalChunks = 0
        /\ result.averageChunkSize = 0
        /\ result.processingTime = 0
        /\ chunks = <<>> /\ iterations = 0 /\ i = 0
        /\ sentences = <<>> /\ paragraphs = <<>> /\ stack = <<>>

C3_Witness ==
    /\ pc = "done"
    /\ Len(text) >= 2
    /\ IsBlank(text)
    /\ ValidConfig(config)
    /\ result.totalChunks = 0

\* C4: with chunkSize > 0 and 0 <= overlap < chunkSize the fixed-size loop
\* terminates: every iteration, whether it emits a chunk or skips a
\* whitespace-only window, strictly increases the window start, so the loop
\* makes at most text.length iterations and is never cut by MaxIter.
C4_WindowStartIncreases ==
    /\ [][(pc = "fixed" /\ ValidConfig(config) /\ iterations' = iterations + 1)
             => currentIndex' > currentIndex]_vars
    /\ []((pc = "fixed" /\ ValidConfig(config)) =>
             /\ iterations <= Len(text)
             /\ iterations <= currentIndex
             /\ (currentIndex < Len(text) => iterations < MaxIter))

C4_Witness ==
    /\ pc = "fixed"
    /\ ValidConfig(config)
    /\ config.overlap > 0
    /\ currentIndex >= Len(text)
    /\ Len(chunks) >= 2
    /\ iterations > Len(chunks)

AllChunksNonEmpty(cs) == \A k \in 1..Len(cs) : Len(Trim(cs[k].content)) >= 1

\* C5: for every strategy and every valid configuration no emitted chunk has
\* empty content: the trimmed content has length >= 1.
C5_NoEmptyChunk ==
    (Called /\ ValidConfig(config)) =>
        /\ AllChunksNonEmpty(chunks)
        /\ (Returned => AllChunksNonEmpty(result.chunks))

C5_Witness ==
    /\ Returned
    /\ ValidConfig(config)
    /\ config.strategy = "sentence"
    /\ Len(result.chunks) >= 2
    /\ \E k \in 1..Len(sentences) : Len(sentences[k]) > config.chunkSize

StartIndexSorted(cs) ==
    \A k \in 1..(Len(cs) - 1) : cs[k].startIndex <= cs[k + 1].startIndex

\* C6: for every strategy and every valid configuration totalChunks is the
\* number of chunks returned and the chunks' startIndex values are
\* non-decreasing in sequence order, across the recursion levels of the
\* recursive strategy too.
C6_CountAndOrder ==
    (Called /\ ValidConfig(config)) =>
        /\ StartIndexSorted(chunks)
        /\ (Returned =>
              /\ result.chunks = chunks
              /\ result.totalChunks = Len(result.chunks)
              /\ StartIndexSorted(result.chunks))

C6_Witness ==
    /\ Returned
    /\ ValidConfig(config)
    /\ config.strategy = "recursive"
    /\ Len(SplitParagraphs(text)) > 1
    /\ result.totalChunks >= 3
    /\ result.chunks[1].startIndex < result.chunks[2].startIndex

OffsetsExact(t, cs) ==
    \A k \in 1..Len(cs) :
        /\ 0 <= cs[k].startIndex
        /\ cs[k].startIndex <= cs[k].endIndex
        /\ cs[k].content = Trim(Slice(t, cs[k].startIndex, cs[k].endIndex))

\* C7: for every strategy each chunk's startIndex and endIndex are offsets into
\* the original text that mark where its span was taken from: content is the
\* trimmed substring text[startIndex, endIndex).
C7_OffsetsMarkSpan ==
    (Returned /\ ValidConfig(config)) => OffsetsExact(text, result.chunks)

\* C8: in the fixed-size strategy every chunk has characterCount <= chunkSize
\* and every chunk but the last of the result has characterCount = chunkSize,
\* for any valid overlap.
C8_FixedChunkSizes ==
    (Returned /\ ValidConfig(config) /\ config.strategy = "fixed") =>
        \A k \in 1..Len(result.chunks) :
            /\ result.chunks[k].characterCount <= config.chunkSize
            /\ (k < Len(result.chunks) =>
                    result.chunks[k].characterCount = config.chunkSize)

FixedZeroOverlap ==
    /\ Returned
    /\ ValidConfig(config)
    /\ config.strategy = "fixed"
    /\ config.overlap = 0
    /\ ~IsBlank(text)

\* the windows [k * chunkSize, (k + 1) * chunkSize) of t that hold a
\* non-whitespace character
NonBlankWindows(t, size) ==
    {k \in 0..(CeilDiv(Len(t), size) - 1) :
        ~IsBlank(Slice(t, k * size, Min((k + 1) * size, Len(t))))}

\* C9 as stated: in the fixed-size strategy with overlap 0 the number of chunks
\* of a non-blank text is ceil(text.length / chunkSize).
C9_CountIsCeiling ==
    FixedZeroOverlap =>
        Len(result.chunks) = CeilDiv(Len(text), config.chunkSize)

\* C9 as amended: in the fixed-size strategy with overlap 0 the number of chunks
\* of a non-blank text is the number of windows that are not whitespace-only,
\* that is ceil(text.length / chunkSize) minus the whitespace-only windows.
C9_CountIsNonBlankWindows ==
    FixedZeroOverlap =>
        /\ Len(result.chunks) = Cardinality(NonBlankWindows(text, config.chunkSize))
        /\ Len(result.chunks) <= CeilDiv(Len(text), config.chunkSize)
        /\ \A k \in 1..Len(result.chunks) :
              result.chunks[k].startIndex \div config.chunkSize
                  \in NonBlankWindows(text, config.chunkSize)

C9_Witness ==
    /\ FixedZeroOverlap
    /\ Len(result.chunks) >= 2
    /\ Len(result.chunks) < CeilDiv(Len(text), config.chunkSize)
    /\ config.chunkSize >= 2

\* C10: no text is lost or duplicated: for the fixed-size strategy with overlap
\* 0 and for the sentence, paragraph, recursive and semantic strategies the
\* chunk contents concatenated in order hold exactly the non-whitespace
\* characters of the text, in the text's order.
C10_NoTextLost ==
    (/\ Returned
     /\ ValidConfig(config)
     /\ config.strategy = "fixed" => config.overlap = 0) =>
        NonWhiteSpace(ConcatContents(result.chunks)) = NonWhiteSpace(text)

C10_Witness ==
    /\ Returned
    /\ ValidConfig(config)
    /\ config.strategy = "recursive"
    /\ Len(result.chunks) >= 3
    /\ Len(NonWhiteSpace(text)) < Len(Trim(text))
    /\ \E k \in 1..Len(result.chunks) : result.chunks[k].wordCount >= 2

----------------------------------------------------------------------------
(* C11..C20 *)

\* C11: for the README text with chunkSize 20, overlap 5 and the fixed strategy
\* the result has exactly four chunks whose contents are
\* "The quick brown fox ", "fox jumps over the l", "the lazy dog. The do" and
\* "The dog was sleeping.", in that order: the characters [0, 20), [16, 36),
\* [31, 51) and [45, 66) of the text.
C11_ReadmeExample ==
    (Returned /\ text = ReadmeText /\ config = ReadmeConfig) =>
        /\ Len(result.chunks) = 4
        /\ result.chunks[1].content = Slice(ReadmeText, 0, 20)
        /\ result.chunks[2].content = Slice(ReadmeText, 16, 36)
        /\ result.chunks[3].content = Slice(ReadmeText, 31, 51)
        /\ result.chunks[4].content = Slice(ReadmeText, 45, 66)

\* a single word: no whitespace inside
IsSingleWord(s) == s # <<>> /\ \A k \in 1..Len(s) : s[k] \notin WhiteSpace

\* C12: in the recursive strategy with chunkSize > 0 every chunk has
\* characterCount <= chunkSize, unless its content is a single whitespace-free
\* word that is itself longer than chunkSize.
C12_RecursiveChunkSizes ==
    (Returned /\ config.strategy = "recursive" /\ config.chunkSize > 0) =>
        \A k \in 1..Len(result.chunks) :
            \/ result.chunks[k].characterCount <= config.chunkSize
            \/ /\ IsSingleWord(result.chunks[k].content)
               /\ Len(result.chunks[k].content) > config.chunkSize

\* a recursive result with a word longer than chunkSize accepted whole next to
\* chunks within chunkSize, one of them holding two words
C12_Witness ==
    /\ Returned
    /\ config.strategy = "recursive"
    /\ config.chunkSize > 0
    /\ Len(result.chunks) >= 3
    /\ \E k \in 1..Len(result.chunks) :
          result.chunks[k].characterCount > config.chunkSize
    /\ \E k \in 1..Len(result.chunks) :
          /\ result.chunks[k].characterCount <= config.chunkSize
          /\ result.chunks[k].wordCount >= 2

\* the units of a text as the loops see them: split, non-blank, trimmed
TrimmedUnits(units) == [k \in 1..Len(units) |-> Trim(units[k])]

UnitsOf(strategy, t) ==
    TrimmedUnits(IF strategy = "paragraph" THEN SplitParagraphs(t)
                 ELSE SplitSentences(t))

SeparatorOf(strategy) ==
    IF strategy = "paragraph" THEN <<"\n", "\n">> ELSE <<" ">>

RECURSIVE JoinAll(_, _)
JoinAll(units, sep) ==
    IF units = <<>> THEN <<>>
    ELSE IF Len(units) = 1 THEN units[1]
    ELSE units[1] \o sep \o JoinAll(Tail(units), sep)

\* cs holds the units, in order and each once, every chunk being one or more
\* consecutive units joined by sep
RECURSIVE WholeUnits(_, _, _)
WholeUnits(cs, units, sep) ==
    IF cs = <<>> THEN units = <<>>
    ELSE \E n \in 1..Len(units) :
            /\ Head(cs).content = JoinAll(SubSeq(units, 1, n), sep)
            /\ WholeUnits(Tail(cs), SubSeq(units, n + 1, Len(units)), sep)

\* C13: in the sentence, paragraph and semantic strategies no chunk boundary
\* falls inside a unit: every chunk's content is one or more whole trimmed
\* sentences joined by one space, or whole trimmed paragraphs joined by a
\* double line break, and the units of all chunks, in order, are exactly the
\* units of the input, each once.
C13_WholeUnits ==
    (Returned /\ config.strategy \in {"sentence", "paragraph", "semantic"}) =>
        WholeUnits(result.chunks, UnitsOf(config.strategy, text),
                   SeparatorOf(config.strategy))

\* a semantic result of several chunks, one of them holding two sentences
C13_Witness ==
    /\ Returned
    /\ config.strategy = "semantic"
    /\ Len(result.chunks) >= 2
    /\ Len(UnitsOf("semantic", text)) > Len(result.chunks)

InUnitLoop == pc \in {"sentence", "paragraph"}

\* the unit the loop of the running strategy looks at next
NextUnit == UnitsOf(pc, text)[i + 1]

\* the buffer is non-empty and the next unit, with its separator, would make
\* it longer than chunkSize
WouldExceed ==
    /\ currentChunk # <<>>
    /\ Len(currentChunk) + Len(SeparatorOf(pc)) + Len(NextUnit) > config.chunkSize

\* one iteration of a unit loop flushes exactly when WouldExceed, the
\* overflowing unit starting the next buffer
FlushExactlyOnOverflow ==
    (InUnitLoop /\ pc' = pc /\ i' = i + 1) =>
        IF WouldExceed
        THEN /\ Len(chunks') = Len(chunks) + 1
             /\ chunks'[Len(chunks')].content = currentChunk
             /\ currentChunk' = NextUnit
        ELSE /\ chunks' = chunks
             /\ currentChunk' =
                    IF currentChunk = <<>> THEN NextUnit
                    ELSE currentChunk \o SeparatorOf(pc) \o NextUnit

IsOneUnit(content, units) == \E k \in 1..Len(units) : content = units[k]

\* a chunk longer than chunkSize is one single unit
LongChunkIsOneUnit ==
    (Returned /\ config.strategy \in {"sentence", "paragraph"}) =>
        \A k \in 1..Len(result.chunks) :
            result.chunks[k].characterCount > config.chunkSize =>
                IsOneUnit(result.chunks[k].content, UnitsOf(config.strategy, text))

\* three units of which the first two fit together and all three do not
ThreeUnitsTwoFit(strategy, t, cfg) ==
    LET units == UnitsOf(strategy, t)
        sep == SeparatorOf(strategy)
    IN /\ Len(units) = 3
       /\ Len(JoinAll(SubSeq(units, 1, 2), sep)) <= cfg.chunkSize
       /\ Len(JoinAll(units, sep)) > cfg.chunkSize

ThreeUnitsGiveTwoChunks ==
    (/\ Returned
     /\ config.strategy \in {"sentence", "paragraph"}
     /\ ThreeUnitsTwoFit(config.strategy, text, config)) =>
        LET units == UnitsOf(config.strategy, text)
        IN /\ Len(result.chunks) = 2
           /\ result.chunks[1].content =
                  JoinAll(SubSeq(units, 1, 2), SeparatorOf(config.strategy))
           /\ result.chunks[2].content = units[3]

\* C14: in the sentence and paragraph strategies the buffer is flushed exactly
\* when it is non-empty and appending the next unit with its separator would
\* make it longer than chunkSize, the overflowing unit starting the next
\* buffer; hence a chunk exceeds chunkSize only if it is one single unit, and
\* three sentences where 1+2 fit but 1+2+3 do not give the chunks {1,2}, {3}.
C14_FlushOnOverflow ==
    /\ [][FlushExactlyOnOverflow]_vars
    /\ [](LongChunkIsOneUnit /\ ThreeUnitsGiveTwoChunks)

\* the three-sentence case has been chunked
C14_Witness ==
    /\ Returned
    /\ config.strategy = "sentence"
    /\ ThreeUnitsTwoFit("sentence", text, config)
    /\ Len(result.chunks) = 2
    /\ result.chunks[1].wordCount >= 2

\* two line breaks with nothing but whitespace between them
HasParagraphBreak(s) ==
    \E a, b \in 1..Len(s) :
        /\ a < b
        /\ s[a] = "\n"
        /\ s[b] = "\n"
        /\ \A k \in (a + 1)..(b - 1) : s[k] \in WhiteSpace

\* a paragraph call on one paragraph shorter than chunkSize has returned
SingleShortParagraph ==
    /\ Returned
    /\ config.strategy = "paragraph"
    /\ ~IsBlank(text)
    /\ ~HasParagraphBreak(Trim(text))
    /\ Len(Trim(text)) < config.chunkSize

\* C15: with the paragraph strategy a text that is a single paragraph of
\* length < chunkSize, possibly surrounded by blank lines or whitespace, gives
\* exactly one chunk whose content is the trimmed input.
C15_SingleParagraph ==
    SingleShortParagraph =>
        /\ Len(result.chunks) = 1
        /\ result.chunks[1].content = Trim(text)

\* the paragraph stands between blank lines and holds several words
C15_Witness ==
    /\ SingleShortParagraph
    /\ HasParagraphBreak(text)
    /\ text[1] \in WhiteSpace
    /\ Len(result.chunks) = 1
    /\ result.chunks[1].wordCount >= 2

\* C16: for every strategy, every chunk's characterCount equals the length of
\* its trimmed content field.
C16_CharacterCountIsContentLength ==
    (Returned /\ ValidConfig(config)) =>
        \A k \in 1..Len(result.chunks) :
            result.chunks[k].characterCount = Len(result.chunks[k].content)

\* C17: within one result the chunk ids are unique and are the strategy name
\* followed by the chunk's ordinal: the k-th chunk (from 0) has id
\* "<strategy>-k", with no gaps, also in the recursive strategy, whose chunks
\* come from different recursion levels, and in the fixed strategy when
\* all-whitespace windows are skipped.
C17_IdsAreOrdinals ==
    Returned =>
        /\ \A k \in 1..Len(result.chunks) :
               result.chunks[k].id = <<config.strategy, k - 1>>
        /\ \A j, k \in 1..Len(result.chunks) :
               result.chunks[j].id = result.chunks[k].id => j = k

\* a fixed-size result with chunks on both sides of a skipped window
C17_Witness ==
    /\ Returned
    /\ config.strategy = "fixed"
    /\ ValidConfig(config)
    /\ Len(result.chunks) >= 2
    /\ \E k \in 1..(Len(result.chunks) - 1) :
          result.chunks[k + 1].startIndex > result.chunks[k].endIndex

\* the chunks semanticChunking returns for sents when nothing else runs:
\* the loop from sentence k on, with buffer buf at offset ci and chunks cs
RECURSIVE SemanticLoop(_, _, _, _, _, _)
SemanticLoop(sents, k, buf, ci, cs, cfg) ==
    IF k >= Len(sents)
    THEN IF Trim(buf) # <<>>
         THEN Append(cs, SavedChunk("semantic", buf, ci, Len(cs)))
         ELSE cs
    ELSE LET sentence == Trim(sents[k + 1])
             potentialChunk == Joined(buf, <<" ">>, sentence)
             shouldSplit == shouldSplitSemantically(buf, sentence,
                                Len(potentialChunk), cfg.chunkSize,
                                IF k < Len(sents) - 1 THEN sents[k + 2] ELSE <<>>)
         IN IF sentence = <<>>
            THEN SemanticLoop(sents, k + 1, buf, ci, cs, cfg)
            ELSE IF shouldSplit /\ Trim(buf) # <<>>
            THEN SemanticLoop(sents, k + 1, sentence, ci + Len(buf),
                     Append(cs, SavedChunk("semantic", buf, ci, Len(cs))), cfg)
            ELSE SemanticLoop(sents, k + 1, potentialChunk, ci, cs, cfg)

SemanticAlone(t, cfg) == SemanticLoop(SplitSentences(t), 0, <<>>, 0, <<>>, cfg)

\* the locals of every call, executing or suspended
CallContexts == {Context} \cup {calls[c] : c \in DOMAIN calls}

Finished(ctx) == ctx.pc = "done" /\ ctx.result # NoResult

\* C18: the engine keeps no state between calls and yielding does not affect
\* results: when two semantic calls are interleaved at their awaits in any
\* order, each returns exactly the chunks (ids, contents, offsets, order) it
\* returns when run alone on its own text and config.
C18_InterleavedCallsIndependent ==
    \A ctx \in CallContexts :
        Finished(ctx) =>
            /\ ctx.result.chunks = SemanticAlone(ctx.text, ctx.config)
            /\ ctx.result.totalChunks = Len(ctx.result.chunks)

\* one call has returned several chunks while the other, on another text, is
\* suspended in the middle of its loop with chunks of its own
C18_Witness ==
    /\ Finished(Context)
    /\ Len(result.chunks) >= 2
    /\ \E c \in DOMAIN calls :
          /\ calls[c].pc = "semantic"
          /\ calls[c].text # text
          /\ calls[c].chunks # <<>>
          /\ calls[c].i < Len(calls[c].sentences)

FixedReturned == Returned /\ ValidConfig(config) /\ config.strategy = "fixed"

StepOf(cfg) == cfg.chunkSize - cfg.overlap

\* C19 as stated: in the fixed-size strategy the window start advances by
\* exactly step = chunkSize - overlap on every iteration starting from 0, so
\* every chunk's startIndex is a multiple of step and consecutive chunks'
\* startIndex values differ by a multiple of step.
C19_StartsOnStepGrid ==
    FixedReturned =>
        /\ \A k \in 1..Len(result.chunks) :
               result.chunks[k].startIndex % StepOf(config) = 0
        /\ \A k \in 1..(Len(result.chunks) - 1) :
               (result.chunks[k + 1].startIndex - result.chunks[k].startIndex)
                   % StepOf(config) = 0

\* an iteration that emits a chunk advances the window start by step, one
\* that skips an all-whitespace window moves it to the end of that window
AdvanceByStepOrWindow ==
    (pc = "fixed" /\ iterations' = iterations + 1) =>
        IF Len(chunks') > Len(chunks)
        THEN /\ chunks'[Len(chunks')].startIndex = currentIndex
             /\ currentIndex' = currentIndex + StepOf(config)
        ELSE /\ IsBlank(Slice(text, currentIndex, currentIndex + config.chunkSize))
             /\ currentIndex' = Min(currentIndex + config.chunkSize, Len(text))

\* chunks of consecutive iterations start step apart; the chunks before the
\* first skipped window, and all chunks when overlap is 0, start on
\* multiples of step
StartsStepApart ==
    FixedReturned =>
        /\ \A k \in 1..(Len(result.chunks) - 1) :
               \/ result.chunks[k + 1].startIndex
                      = result.chunks[k].startIndex + StepOf(config)
               \/ /\ result.chunks[k + 1].startIndex
                         >= result.chunks[k].startIndex + StepOf(config)
                            + config.chunkSize
                  /\ IsBlank(Slice(text,
                         result.chunks[k].startIndex + StepOf(config),
                         result.chunks[k + 1].startIndex))
        /\ (iterations = Len(result.chunks) \/ config.overlap = 0) =>
               \A k \in 1..Len(result.chunks) :
                   result.chunks[k].startIndex % StepOf(config) = 0
        /\ iterations = Len(result.chunks) =>
               \A k \in 1..Len(result.chunks) :
                   result.chunks[k].startIndex = (k - 1) * StepOf(config)

\* C19 as amended: the window start advances by exactly step after every
\* emitted chunk and to the end of the window after a skipped all-whitespace
\* window; chunks with no skipped window between them start step apart, and
\* every startIndex is a multiple of step when overlap is 0 or no window was
\* skipped.
C19_StepUnlessSkipped ==
    /\ [][AdvanceByStepOrWindow]_vars
    /\ []StartsStepApart

\* a chunk emitted after a skipped window, off the multiples of step
C19_Witness ==
    /\ FixedReturned
    /\ config.overlap > 0
    /\ iterations > Len(result.chunks)
    /\ \E k \in 1..Len(result.chunks) :
          result.chunks[k].startIndex % StepOf(config) # 0

\* C20 as stated: in the fixed-size strategy the first chunk records an
\* overlap of 0 and every later chunk records
\* overlap = min(config.overlap, characterCount of the preceding chunk).
C20_OverlapFromPrecedingChunk ==
    FixedReturned =>
        \A k \in 1..Len(result.chunks) :
            result.chunks[k].overlap =
                IF k = 1 THEN 0
                ELSE Min(config.overlap, result.chunks[k - 1].characterCount)

\* C20 as amended: in the fixed-size strategy the first chunk records an
\* overlap of 0 and every later chunk records
\* overlap = min(config.overlap, its own characterCount).
C20_OverlapFromOwnLength ==
    (Returned /\ config.strategy = "fixed") =>
        \A k \in 1..Len(result.chunks) :
            result.chunks[k].overlap =
                IF k = 1 THEN 0
                ELSE Min(config.overlap, result.chunks[k].characterCount)

\* a later chunk shorter than config.overlap after a longer one
C20_Witness ==
    /\ FixedReturned
    /\ \E k \in 2..Len(result.chunks) :
          /\ result.chunks[k].characterCount < config.overlap
          /\ result.chunks[k - 1].characterCount >= config.overlap
          /\ result.chunks[k].overlap = result.chunks[k].characterCount

----------------------------------------------------------------------------
(* C21..C30 *)

\* C21: for a valid config the fixed-size loop performs exactly
\* ceil((text.length - overlap) / step) iterations, step = chunkSize - overlap.
\* Stated for the texts longer than one window that hold no whitespace, where
\* no window is skipped.
C21_IterationCount ==
    (/\ FixedReturned
     /\ Len(text) > config.chunkSize
     /\ NonWhiteSpace(text) = text) =>
        iterations = CeilDiv(Len(text) - config.overlap, StepOf(config))

\* C22: in the fixed-size strategy each chunk's startIndex and endIndex are the
\* untrimmed window bounds: endIndex = min(startIndex + chunkSize, text.length)
\* and content = trim(text[startIndex, endIndex)), also when trimming removes
\* leading or trailing whitespace from the window.
C22_UntrimmedWindowBounds ==
    (Returned /\ config.strategy = "fixed") =>
        \A k \in 1..Len(result.chunks) :
            LET c == result.chunks[k]
            IN /\ 0 <= c.startIndex
               /\ c.endIndex = Min(c.startIndex + config.chunkSize, Len(text))
               /\ c.content = Trim(Slice(text, c.startIndex, c.endIndex))

\* a chunk whose window begins and ends with whitespace, next to another chunk
C22_Witness ==
    /\ FixedReturned
    /\ Len(result.chunks) >= 2
    /\ \E k \in 1..Len(result.chunks) :
          LET c == result.chunks[k]
          IN /\ text[c.startIndex + 1] \in WhiteSpace
             /\ text[c.endIndex] \in WhiteSpace
             /\ Len(c.content) <= c.endIndex - c.startIndex - 2

\* a call of recursiveChunk is made on a span strictly shorter than the
\* caller's, and the word-level fallback makes no call
CallsOnShorterSpan ==
    (pc = "recursive" /\ stack # <<>> /\ Len(stack') > Len(stack)) =>
        /\ Len(stack') = Len(stack) + 1
        /\ Len(stack'[Len(stack')].text) < Len(Top.text)
        /\ Top.phase # "words"

\* the calls in progress are on ever shorter spans of the text
DepthBounded ==
    pc = "recursive" =>
        /\ Len(stack) <= Len(text)
        /\ \A k \in 1..(Len(stack) - 1) :
               Len(stack[k + 1].text) < Len(stack[k].text)

\* C23: for every text and chunkSize > 0 the recursive strategy terminates:
\* every recursive call is made on a span strictly shorter than its caller's
\* or ends in a base case (a leaf, or the word-level fallback, which never
\* recurses), so the recursion depth is bounded.
C23_RecursiveTerminates ==
    /\ [][CallsOnShorterSpan]_vars
    /\ []DepthBounded
    /\ (pc = "recursive") ~> Returned

\* a paragraph of a text is split into sentence groups, one of which is in
\* the word-level fallback
C23_Witness ==
    /\ pc = "recursive"
    /\ Len(stack) >= 3
    /\ stack[1].phase = "paragraphs"
    /\ stack[2].phase = "sentences"
    /\ Top.phase = "words"
    /\ chunks # <<>>

\* the sentence the semantic loop looks at next, and the length the buffer
\* would have with it
NextSentence == Trim(sentences[i + 1])

LengthWithNext ==
    Len(currentChunk) + (IF currentChunk # <<>> THEN 1 ELSE 0) + Len(NextSentence)

\* an iteration of the semantic loop flushes no buffer shorter than
\* 0.3 x chunkSize unless the next sentence would take it past chunkSize, and
\* flushes every non-empty buffer the next sentence would take past chunkSize
SemanticFlushRule ==
    (pc = "semantic" /\ pc' = pc /\ i' = i + 1) =>
        /\ (Len(chunks') > Len(chunks) /\ 10 * Len(currentChunk) < 3 * config.chunkSize)
              => LengthWithNext > config.chunkSize
        /\ (currentChunk # <<>> /\ LengthWithNext > config.chunkSize)
              => /\ Len(chunks') = Len(chunks) + 1
                 /\ chunks'[Len(chunks')].content = currentChunk
                 /\ currentChunk' = NextSentence

LongSemanticChunkIsOneSentence ==
    (Returned /\ config.strategy = "semantic") =>
        \A k \in 1..Len(result.chunks) :
            result.chunks[k].characterCount > config.chunkSize =>
                IsOneUnit(result.chunks[k].content, UnitsOf("semantic", text))

\* C24: the semantic strategy never flushes a buffer shorter than
\* 0.3 x chunkSize unless appending the next sentence would make it longer
\* than chunkSize, and it always flushes a non-empty buffer when appending the
\* next sentence would exceed chunkSize, so a semantic chunk exceeds chunkSize
\* only if it is a single sentence.  (A flush is a save made by the loop on
\* meeting the next sentence; the save of the last buffer after the loop has
\* no next sentence.)
C24_SemanticSizeRules ==
    /\ [][SemanticFlushRule]_vars
    /\ []LongSemanticChunkIsOneSentence

\* a semantic result in which a buffer shorter than 0.3 x chunkSize took the
\* next sentence in, and a later sentence was split off
C24_Witness ==
    /\ Returned
    /\ config.strategy = "semantic"
    /\ config.chunkSize > 0
    /\ Len(result.chunks) >= 2
    /\ \E n \in 2..Len(UnitsOf("semantic", text)) :
          /\ result.chunks[1].content
                = JoinAll(SubSeq(UnitsOf("semantic", text), 1, n), <<" ">>)
          /\ 10 * Len(UnitsOf("semantic", text)[1]) < 3 * config.chunkSize
          /\ Len(result.chunks[1].content) <= config.chunkSize

\* Jaccard overlap of two keyword sets as a fraction <<n, d>>, 0 if either is empty
Jaccard(A, B) ==
    IF A = {} \/ B = {} THEN <<0, 1>>
    ELSE <<Cardinality(A \cap B), Cardinality(A \cup B)>>

\* fraction f is less than n / d
FractionBelow(f, n, d) == f[1] * d < n * f[2]

\* f > 1.5 x g in the arithmetic of the program: the quotients and the
\* product are doubles, so that 9/10 counts as more than 1.5 x 6/10
MoreThanOneAndAHalf(f, g) ==
    DoubleGreater(Quotient(f[1], f[2]), TimesOneAndAHalf(Quotient(g[1], g[2])))

\* the sentence after the next one, '' when there is none
FollowingSentence == IF i < Len(sentences) - 1 THEN sentences[i + 2] ELSE <<>>

\* the three signals of the claim, for the buffer and the next sentences
SemanticSignal ==
    LET similarity == Jaccard(extractKeywords(currentChunk),
                              extractKeywords(NextSentence))
        contextualSimilarity ==
            IF FollowingSentence = <<>> THEN <<0, 1>>
            ELSE Jaccard(extractKeywords(NextSentence),
                         extractKeywords(FollowingSentence))
    IN \/ /\ FractionBelow(similarity, 2, 10)
          /\ 10 * LengthWithNext > 6 * config.chunkSize
       \/ /\ detectTopicTransition(currentChunk, NextSentence)
          /\ 10 * LengthWithNext > 4 * config.chunkSize
       \/ /\ MoreThanOneAndAHalf(contextualSimilarity, similarity)
          /\ 10 * LengthWithNext > 5 * config.chunkSize

\* the decision can be made on the signals: the buffer with the next sentence
\* fits and the buffer is not too small
SignalsDecide ==
    /\ pc = "semantic"
    /\ i < Len(sentences)
    /\ LengthWithNext <= config.chunkSize
    /\ 10 * Len(currentChunk) >= 3 * config.chunkSize

\* end of the original text.
C26_OffsetsWithinText ==
    (Returned /\ ValidConfig(config)) =>
        \A k \in 1..Len(result.chunks) :
            /\ 0 <= result.chunks[k].startIndex
            /\ result.chunks[k].startIndex <= result.chunks[k].endIndex
            /\ result.chunks[k].endIndex <= Len(text)

\* a result of accumulated offsets: several chunks, the last one ending
\* before the end of a text that ends with a non-whitespace character
C26_Witness ==
    /\ Returned
    /\ ValidConfig(config)
    /\ config.strategy \in {"sentence", "paragraph", "recursive", "semantic"}
    /\ Len(result.chunks) >= 3
    /\ text[Len(text)] \notin WhiteSpace
    /\ result.chunks[Len(result.chunks)].endIndex < Len(text)

\* C27: after any sequence of strategy, chunk-size and overlap changes made
\* through the selector, starting from chunkSize 1000 and overlap 100, the
\* config that the page hands to the engine (chunkingConfig, which
\* handleFileUpload and handleConfigChange pass to performChunking) has
\* 0 <= overlap < chunkSize.
C27_ConfigSizesValid ==
    /\ 0 <= chunkingConfig.overlap
    /\ chunkingConfig.overlap < chunkingConfig.chunkSize

\* the chunks and the strategy of a result: what the page displays of it
Displayed(r) == [chunks |-> r.chunks, strategy |-> r.strategy]

\* every run that was started has settled
AllRunsSettled == lastRun # 0 /\ pending = {} /\ ~Entering

\* C28: once all runs have completed, the displayed chunkingResult is the
\* result computed for the most recently set configuration: when the run
\* started last was given the current chunkingConfig, its result is the one
\* displayed, whatever the order in which the runs settled.
C28_LatestRunDisplayed ==
    (AllRunsSettled /\ ContextOf(lastRun).config = chunkingConfig)
        => Displayed(chunkingResult) = Displayed(ContextOf(lastRun).result)

\* a handleFileUpload call that awaited parseFile is over: parseFile rejected
ParseRejected ==
    \E k \in 1..Len(uploads) :
        uploads[k].run = 0 /\ uploads' = RemoveAt(uploads, k)

\* C29: when PDFParser.parseFile rejects, the upload component ends with its
\* error message set and uploadedFile cleared.
C29_FailedParseShowsError ==
    [][ParseRejected
          => (uploadError' # NoMessage /\ uploadedFile' = NoFile)]_vars

\* C30: while no upload is being handled (every handleFileUpload call has
\* finished, and the next upload has not started), uploadProgress is 0: no
\* tick of the progress timer changes it.
C30_ProgressRestsAtZero == uploads = <<>> => uploadProgress = 0

====
